---- MODULE Spec2Model ----
(***************************************************************************)
(* generate_tables.py: fetch a UCD snapshot, run ucd-generate, rewrite its   *)
(* general-category output (transform_code) and write it to                *)
(* src/tables/v<version>.rs.                                               *)
(*                                                                         *)
(* Byte strings are modelled as sequences of one-character strings, so     *)
(* that bytes.replace, the `in` operator, bytes.splitlines and bytes.join  *)
(* are computed character by character as Python computes them.           *)
(***************************************************************************)
EXTENDS Integers, Sequences, FiniteSets

\* ---------------------------------------------------------------- bounds
\* How many of the 30 names of CATEGORIES the model iterates over (the
\* first NumCategories of the set literal, in the order it is written).
NumCategories == 3
\* How many times the program is run one after the other on the same
\* filesystem.
MaxRuns == 2

\* ------------------------------------------------------- program constants
\* The 30 names of the CATEGORIES set literal.

CategoryNames ==
    << (* Close_Punctuation *) <<"C","l","o","s","e","_","P","u","n","c","t","u","a","t","i","o","n">>,
       (* Connector_Punctuation *) <<"C","o","n","n","e","c","t","o","r","_","P","u","n","c","t","u","a","t","i","o","n">>,
       (* Control *) <<"C","o","n","t","r","o","l">>,
       (* Currency_Symbol *) <<"C","u","r","r","e","n","c","y","_","S","y","m","b","o","l">>,
       (* Dash_Punctuation *) <<"D","a","s","h","_","P","u","n","c","t","u","a","t","i","o","n">>,
       (* Decimal_Number *) <<"D","e","c","i","m","a","l","_","N","u","m","b","e","r">>,
       (* Enclosing_Mark *) <<"E","n","c","l","o","s","i","n","g","_","M","a","r","k">>,
       (* Final_Punctuation *) <<"F","i","n","a","l","_","P","u","n","c","t","u","a","t","i","o","n">>,
       (* Format *) <<"F","o","r","m","a","t">>,
       (* Initial_Punctuation *) <<"I","n","i","t","i","a","l","_","P","u","n","c","t","u","a","t","i","o","n">>,
       (* Letter_Number *) <<"L","e","t","t","e","r","_","N","u","m","b","e","r">>,
       (* Line_Separator *) <<"L","i","n","e","_","S","e","p","a","r","a","t","o","r">>,
       (* Lowercase_Letter *) <<"L","o","w","e","r","c","a","s","e","_","L","e","t","t","e","r">>,
       (* Math_Symbol *) <<"M","a","t","h","_","S","y","m","b","o","l">>,
       (* Modifier_Letter *) <<"M","o","d","i","f","i","e","r","_","L","e","t","t","e","r">>,
       (* Modifier_Symbol *) <<"M","o","d","i","f","i","e","r","_","S","y","m","b","o","l">>,
       (* Nonspacing_Mark *) <<"N","o","n","s","p","a","c","i","n","g","_","M","a","r","k">>,
       (* Open_Punctuation *) <<"O","p","e","n","_","P","u","n","c","t","u","a","t","i","o","n">>,
       (* Other_Letter *) <<"O","t","h","e","r","_","L","e","t","t","e","r">>,
       (* Other_Number *) <<"O","t","h","e","r","_","N","u","m","b","e","r">>,
       (* Other_Punctuation *) <<"O","t","h","e","r","_","P","u","n","c","t","u","a","t","i","o","n">>,
       (* Other_Symbol *) <<"O","t","h","e","r","_","S","y","m","b","o","l">>,
       (* Paragraph_Separator *) <<"P","a","r","a","g","r","a","p","h","_","S","e","p","a","r","a","t","o","r">>,
       (* Private_Use *) <<"P","r","i","v","a","t","e","_","U","s","e">>,
       (* Space_Separator *) <<"S","p","a","c","e","_","S","e","p","a","r","a","t","o","r">>,
       (* Spacing_Mark *) <<"S","p","a","c","i","n","g","_","M","a","r","k">>,
       (* Surrogate *) <<"S","u","r","r","o","g","a","t","e">>,
       (* Titlecase_Letter *) <<"T","i","t","l","e","c","a","s","e","_","L","e","t","t","e","r">>,
       (* Unassigned *) <<"U","n","a","s","s","i","g","n","e","d">>,
       (* Uppercase_Letter *) <<"U","p","p","e","r","c","a","s","e","_","L","e","t","t","e","r">> >>


\* The set the transform loops over.  Python iterates a set of str in an
\* order that changes from process to process; the loop below therefore
\* picks the next category nondeterministically.
CATEGORIES == {CategoryNames[i] : i \in 1..NumCategories}


\* pub const BY_NAME: &'static [(&'static str, &'static [(u32, u32)])]
OldDecl ==
    <<"p","u","b"," ","c","o","n","s","t"," ","B","Y","_","N","A","M","E",":"," ","&",
    "'","s","t","a","t","i","c"," ","[","(","&","'","s","t","a","t","i","c"," ","s","t","r",","," ",
    "&","'","s","t","a","t","i","c"," ","[","(","u","3","2",","," ","u","3","2",")","]",")","]">>

\* pub const BY_NAME: &'static [&'static [(u32, u32)]]
NewDecl ==
    <<"p","u","b"," ","c","o","n","s","t"," ","B","Y","_","N","A","M","E",":"," ","&",
    "'","s","t","a","t","i","c"," ","[","&","'","s","t","a","t","i","c"," ","[","(","u","3","2",",",
    " ","u","3","2",")","]","]">>

USAGE == "Usage: python generate_tables.py <unicode version>"

\* src/tables
TablesDir ==
    <<"s","r","c","/","t","a","b","l","e","s">>

\* ------------------------------------------------------- bytes operations
Min(S) == CHOOSE x \in S : \A y \in S : x <= y

\* Whether p occurs in s starting at index i.
StartsWithAt(s, p, i) ==
    /\ i + Len(p) - 1 <= Len(s)
    /\ \A k \in 1..Len(p) : s[i + k - 1] = p[k]

\* `p in s` on bytes: p occurs somewhere in s.
Contains(s, p) == \E i \in 1..(Len(s) - Len(p) + 1) : StartsWithAt(s, p, i)

\* s.replace(old, new): every non-overlapping occurrence of old, scanning
\* from the left, is replaced by new (old is never empty here).
RECURSIVE ReplaceFrom(_, _, _, _)
ReplaceFrom(s, old, new, i) ==
    LET at == {j \in i..(Len(s) - Len(old) + 1) : StartsWithAt(s, old, j)}
    IN  IF at = {} THEN SubSeq(s, i, Len(s))
        ELSE SubSeq(s, i, Min(at) - 1) \o new
                 \o ReplaceFrom(s, old, new, Min(at) + Len(old))

Replace(s, old, new) == ReplaceFrom(s, old, new, 1)

\* code.splitlines(): lines end at "\n", "\r" or "\r\n"; the terminators are
\* dropped and a terminator at the very end opens no further line.  ends
\* holds the indices of the "\n" and "\r" of code.
RECURSIVE SplitFrom(_, _, _)
SplitFrom(code, ends, i) ==
    IF i > Len(code) THEN <<>>
    ELSE LET rest == {j \in ends : j >= i}
         IN  IF rest = {} THEN <<SubSeq(code, i, Len(code))>>
             ELSE LET j == Min(rest)
                      next == IF code[j] = "\r" /\ (j + 1) \in ends /\ code[j + 1] = "\n"
                              THEN j + 2 ELSE j + 1
                  IN  <<SubSeq(code, i, j - 1)>> \o SplitFrom(code, ends, next)

splitlines(code) ==
    SplitFrom(code, {j \in 1..Len(code) : code[j] \in {"\n", "\r"}}, 1)

\* sep.join(parts)
RECURSIVE join(_, _)
join(sep, parts) ==
    IF parts = <<>> THEN <<>>
    ELSE IF Len(parts) = 1 THEN parts[1]
    ELSE parts[1] \o sep \o join(sep, Tail(parts))

\* ------------------------------------------------------------ transform_code
\* f"(\"{category}\", ".encode(): the text that opens a category's pair.
PairOpen(category) == <<"(", "\"">> \o category \o <<"\"", ",", " ">>

\* Mutant: only the name-string component is cut out of the declaration.
RewriteDeclStrOnly(code) ==
    Replace(code, <<"(","&","'","s","t","a","t","i","c"," ","s","t","r",","," ">>, <<>>)

\* The first replace of transform_code, on the whole source.
RewriteDecl(code) == Replace(code, OldDecl, NewDecl)

\* Mutant: the line is looked up by the pair syntax, not by the name.
FirstIndexAnyPair(lines, category) ==
    LET hits == {i \in 1..Len(lines) : Contains(lines[i], <<"(", "\"">>)}
    IN  IF hits = {} THEN 0 ELSE Min(hits)

\* next((i for i, line in enumerate(lines) if category.encode() in line), None):
\* the index of the first line holding the category name, 0 standing for
\* None (lines are numbered from 1 here, from 0 in Python).
FirstIndex(lines, category) ==
    LET hits == {i \in 1..Len(lines) : Contains(lines[i], category)}
    IN  IF hits = {} THEN 0 ELSE Min(hits)

\* Mutant: the line is cut after its first entry.
UnwrapFirstEntry(line, category) ==
    LET s == Replace(line, PairOpen(category), <<>>)
        at == {j \in 1..(Len(s) - 1) : StartsWithAt(s, <<")", ",">>, j)}
    IN  IF at = {} THEN s ELSE SubSeq(s, 1, Min(at) - 1) \o <<",">>

\* lines[idx].replace(f"(\"{category}\", ".encode(), b"").replace(b"),", b",")
Unwrap(line, category) ==
    Replace(Replace(line, PairOpen(category), <<>>), <<")", ",">>, <<",">>)

\* Mutant: every line is rewritten, not only the one at idx.
RewriteEveryLine(lines, idx, category) ==
    [i \in 1..Len(lines) |-> Unwrap(lines[i], category)]

\* lines[idx] = ...: the line at idx is rewritten, every other line is kept.
RewriteLine(lines, idx, category) ==
    [lines EXCEPT ![idx] = Unwrap(lines[idx], category)]

\* ----------------------------------------------------------- get_output_path
\* The directories mkdir(parents=True) makes sure exist: the path itself
\* and every ancestor of it.
WithParents(dir) ==
    {SubSeq(dir, 1, k) : k \in {k \in 1..Len(dir) : k = Len(dir) \/ dir[k + 1] = "/"}}

\* Mutant: only the first "." of the version is replaced.
OutputPathFirstDot(unicode_version) ==
    LET at == {j \in 1..Len(unicode_version) : unicode_version[j] = "."}
        version == IF at = {} THEN unicode_version
                   ELSE [unicode_version EXCEPT ![Min(at)] = "_"]
    IN  TablesDir \o <<"/">> \o <<"v">> \o version \o <<".", "r", "s">>

\* tables_directory / f"v{version}.rs" with version = unicode_version.replace(".", "_")
OutputPath(unicode_version) ==
    TablesDir \o <<"/">> \o <<"v">> \o Replace(unicode_version, <<".">>, <<"_">>)
              \o <<".", "r", "s">>

\* ------------------------------------------------ what ucd-generate prints
\* The generator is an external program; these are the texts the model lets
\* it print.  Shape, as ucd-generate writes it: a header comment naming the
\* command line, the BY_NAME index (its declaration line, then the entries
\* ("Name", NAME), then "];"), then one table per category.
LowerCase ==
    <<"a","b","c","d","e","f","g","h","i","j","k","l","m",
      "n","o","p","q","r","s","t","u","v","w","x","y","z">>
UpperCase ==
    <<"A","B","C","D","E","F","G","H","I","J","K","L","M",
      "N","O","P","Q","R","S","T","U","V","W","X","Y","Z">>

Upper(ch) ==
    IF \E k \in 1..26 : LowerCase[k] = ch
    THEN UpperCase[CHOOSE k \in 1..26 : LowerCase[k] = ch]
    ELSE ch

\* The Rust constant a category's table is named by: Control -> CONTROL.
TableName(category) == [i \in 1..Len(category) |-> Upper(category[i])]

\* One entry of the generated index: ("Control", CONTROL),
Entry(category) == PairOpen(category) \o TableName(category) \o <<")", ",">>

\*  = &[
DeclTail ==
    <<" ","="," ","&","[">>

\* //   ucd-generate general-category ucd --exclude=Separator,Symbol,Cased_Letter,Letter,Mark,Number,Other,Punctuation
HeaderLine ==
    <<"/","/"," "," "," ","u","c","d","-","g","e","n","e","r","a","t","e"," ","g","e",
    "n","e","r","a","l","-","c","a","t","e","g","o","r","y"," ","u","c","d"," ","-","-","e","x","c",
    "l","u","d","e","=","S","e","p","a","r","a","t","o","r",",","S","y","m","b","o","l",",","C","a",
    "s","e","d","_","L","e","t","t","e","r",",","L","e","t","t","e","r",",","M","a","r","k",",","N",
    "u","m","b","e","r",",","O","t","h","e","r",",","P","u","n","c","t","u","a","t","i","o","n">>

\* pub const 
TableHead ==
    <<"p","u","b"," ","c","o","n","s","t"," ">>

\* : &'static [(u32, u32)] = &[
TableType ==
    <<":"," ","&","'","s","t","a","t","i","c"," ","[","(","u","3","2",","," ","u","3",
    "2",")","]"," ","="," ","&","[">>

\*   (0, 31), (127, 159),
RangeLine ==
    <<" "," ","(","0",","," ","3","1",")",","," ","(","1","2","7",","," ","1","5","9",
    ")",",">>

\* ];
CloseLine ==
    <<"]",";">>

\* 15.0.0
V15 ==
    <<"1","5",".","0",".","0">>

\* 14.0.0
V14 ==
    <<"1","4",".","0",".","0">>

\* generate_tables.py
Prog ==
    <<"g","e","n","e","r","a","t","e","_","t","a","b","l","e","s",".","p","y">>

\* The orders the index may list the categories in: every permutation.
Orders ==
    {p \in [1..NumCategories -> CATEGORIES] :
        \A i, j \in 1..NumCategories : p[i] = p[j] => i = j}

\* The index lines for the entries es, perLine entries on a line.
RECURSIVE IndexLines(_, _)
IndexLines(es, perLine) ==
    IF es = <<>> THEN <<>>
    ELSE LET n == IF Len(es) < perLine THEN Len(es) ELSE perLine
         IN  <<<<" ", " ">> \o join(<<" ">>, [i \in 1..n |-> Entry(es[i])])>>
                 \o IndexLines(SubSeq(es, n + 1, Len(es)), perLine)

\* The table of one category: an empty line, its declaration, its ranges, "];".
TableLines(category) ==
    <<<<>>, TableHead \o TableName(category) \o TableType, RangeLine, CloseLine>>

RECURSIVE Tables(_)
Tables(cs) == IF cs = <<>> THEN <<>> ELSE TableLines(cs[1]) \o Tables(Tail(cs))

\* One generated source: the index lists the entries es, perLine on a line;
\* every line ends with eol; last holds the lines after the last table
\* (none, or an empty one).
Source(es, perLine, eol, last) ==
    join(eol, <<HeaderLine, <<>>, OldDecl \o DeclTail>>
                  \o IndexLines(es, perLine)
                  \o <<CloseLine>>
                  \o Tables([i \in 1..NumCategories |-> CategoryNames[i]])
                  \o last) \o eol

\* The entries of a source: the categories in order p as they are, with the
\* last entry left out, or with the first entry written a second time at
\* the end of the index.
EntryLists ==
    {p : p \in Orders}
    \cup {SubSeq(p, 1, NumCategories - 1) : p \in Orders}
    \cup {Append(p, p[1]) : p \in Orders}

GeneratedSources ==
    {Source(es, perLine, eol, last) :
        es \in EntryLists, perLine \in {1, 2},
        eol \in {<<"\n">>, <<"\r", "\n">>}, last \in {<<>>, <<<<>>>>}}

\* The command lines: no argument, one version, two arguments.
CommandLines == {<<Prog>>, <<Prog, V15>>, <<Prog, V14>>, <<Prog, V15, V14>>}

\* A file that does not exist, and a file holding data.
NoFile == [exists |-> FALSE, data |-> <<>>]
File(data) == [exists |-> TRUE, data |-> data]

\* The output paths of the versions the command lines name.
OutputPaths == {OutputPath(V15), OutputPath(V14)}

\* str(TypeError) of lines[None]
NoneIndexMessage ==
    <<"l","i","s","t"," ","i","n","d","i","c","e","s"," ","m","u","s","t"," ","b","e"," ",
      "i","n","t","e","g","e","r","s"," ","o","r"," ","s","l","i","c","e","s",","," ",
      "n","o","t"," ","N","o","n","e","T","y","p","e">>

\* ------------------------------------------------------------------ state
VARIABLES
    argv,             \* sys.argv of every run
    generated,        \* what ucd-generate prints on this UCD snapshot
    run,              \* the number of the current run of the program
    pc,               \* where main is
    unicode_version,  \* main's local
    temp_directory,   \* main's local: the number of the directory mkdtemp made, 0 before
    code,             \* main's local
    lines,            \* transform_code's local
    todo,             \* the categories the for loop has not yet reached
    category,         \* transform_code's loop variable
    path,             \* the value get_output_path returned
    stdout,           \* what has been printed
    status,           \* the exit status, read once pc = "exit"
    exc,              \* the exception that ended the run: its type and message
    tempdirs,         \* how many temporary directories exist
    extracted,        \* the temporary directories holding an unpacked UCD.zip
    dirs,             \* the directories that exist under the working directory
    files,            \* the files at the output paths
    files0,           \* history: files when the current run started
    calls,            \* history: the calls of the current run that returned, in order
    written           \* history: what each completed run wrote, in order

vars == <<argv, generated, run, pc, unicode_version, temp_directory, code, lines, todo,
          category, path, stdout, status, exc, tempdirs, extracted, dirs, files,
          files0, calls, written>>

locals == <<unicode_version, temp_directory, code, lines, todo, category, path>>
world == <<tempdirs, extracted, dirs, files>>
fixed == <<argv, generated, run, files0>>

NoException == [type |-> "", message |-> <<>>]

Init ==
    /\ argv \in CommandLines
    /\ generated \in GeneratedSources
    /\ run = 1
    /\ pc = "main"
    /\ unicode_version = <<>>
    /\ temp_directory = 0
    /\ code = <<>>
    /\ lines = <<>>
    /\ todo = {}
    /\ category = <<>>
    /\ path = <<>>
    /\ stdout = <<>>
    /\ status = 0
    /\ exc = NoException
    /\ tempdirs = 0
    /\ extracted = {}
    /\ dirs = {}
    /\ files = [p \in OutputPaths |-> NoFile]
    /\ files0 = [p \in OutputPaths |-> NoFile]
    /\ calls = <<>>
    /\ written = <<>>

\* An exception nobody catches: the interpreter exits with status 1.
Raise(type, message) ==
    /\ pc' = "exit"
    /\ status' = 1
    /\ exc' = [type |-> type, message |-> message]

\* Mutant: the usage message is printed and main goes on.
MainUsageGoesOn ==
    /\ pc = "main"
    /\ Len(argv) # 2
    /\ stdout' = Append(stdout, USAGE)
    /\ unicode_version' = IF Len(argv) > 2 THEN argv[2] ELSE <<>>
    /\ tempdirs' = tempdirs + 1
    /\ temp_directory' = tempdirs + 1
    /\ pc' = "fetch"
    /\ UNCHANGED <<code, lines, todo, category, path, status, exc,
                   extracted, dirs, files, fixed, calls, written>>

\* main, lines 86-88: the wrong number of arguments.
MainUsage ==
    /\ pc = "main"
    /\ Len(argv) # 2
    /\ stdout' = Append(stdout, USAGE)
    /\ Raise("SystemExit", <<>>)
    /\ UNCHANGED <<locals, world, fixed, calls, written>>

\* Mutant: the output file is opened before the work is done.
MainStartOpensFile ==
    /\ pc = "main"
    /\ Len(argv) = 2
    /\ unicode_version' = argv[2]
    /\ tempdirs' = tempdirs + 1
    /\ temp_directory' = tempdirs + 1
    /\ files' = [files EXCEPT ![OutputPath(argv[2])] = File(<<>>)]
    /\ pc' = "fetch"
    /\ UNCHANGED <<code, lines, todo, category, path, stdout, status, exc,
                   extracted, dirs, fixed, calls, written>>

\* main, lines 89-90: one argument; mkdtemp makes a fresh directory.
MainStart ==
    /\ pc = "main"
    /\ Len(argv) = 2
    /\ unicode_version' = argv[2]
    /\ tempdirs' = tempdirs + 1
    /\ temp_directory' = tempdirs + 1
    /\ pc' = "fetch"
    /\ UNCHANGED <<code, lines, todo, category, path, stdout, status, exc,
                   extracted, dirs, files, fixed, calls, written>>

\* fetch: the download and the extraction succeed, or urlretrieve raises.
Fetch ==
    /\ pc = "fetch"
    /\ \/ /\ extracted' = extracted \cup {temp_directory}
          /\ calls' = Append(calls, "fetch")
          /\ pc' = "ucd_generate"
          /\ UNCHANGED <<status, exc>>
       \/ /\ Raise("URLError", <<>>)
          /\ UNCHANGED <<extracted, calls>>
    /\ UNCHANGED <<locals, stdout, tempdirs, dirs, files, fixed, written>>

\* ucd_generate: the generator prints its source, or exits nonzero and
\* check=True raises.
UcdGenerate ==
    /\ pc = "ucd_generate"
    /\ \/ /\ temp_directory \in extracted
          /\ code' = generated
          /\ calls' = Append(calls, "ucd_generate")
          /\ pc' = "transform_code"
          /\ UNCHANGED <<status, exc>>
       \/ /\ Raise("CalledProcessError", <<>>)
          /\ UNCHANGED <<code, calls>>
    /\ UNCHANGED <<unicode_version, temp_directory, lines, todo, category, path,
                   stdout, world, fixed, written>>

\* transform_code, lines 50-54: the declaration is rewritten, the source split.
TransformBegin ==
    /\ pc = "transform_code"
    /\ lines' = splitlines(RewriteDecl(code))
    /\ todo' = CATEGORIES
    /\ pc' = "for"
    /\ UNCHANGED <<unicode_version, temp_directory, code, category, path, stdout,
                   status, exc, world, fixed, calls, written>>

\* transform_code, lines 55-57: one turn of the loop, for whichever category
\* the set yields next.  With no line holding the name idx is None and
\* lines[None] raises TypeError.
TransformCategory ==
    /\ pc = "for"
    /\ \E c \in todo :
        LET idx == FirstIndex(lines, c)
        IN  /\ category' = c
            /\ todo' = todo \ {c}
            /\ IF idx = 0
               THEN /\ Raise("TypeError", NoneIndexMessage)
                    /\ UNCHANGED lines
               ELSE /\ lines' = RewriteLine(lines, idx, c)
                    /\ UNCHANGED <<pc, status, exc>>
    /\ UNCHANGED <<unicode_version, temp_directory, code, path, stdout, world,
                   fixed, calls, written>>

\* transform_code, line 58, and the assignment of main's line 93; the
\* function's locals end with it.
TransformReturn ==
    /\ pc = "for"
    /\ todo = {}
    /\ code' = join(<<"\n">>, lines)
    /\ lines' = <<>>
    /\ category' = <<>>
    /\ calls' = Append(calls, "transform_code")
    /\ pc' = "get_output_path"
    /\ UNCHANGED <<unicode_version, temp_directory, todo, path,
                   stdout, status, exc, world, fixed, written>>

\* get_output_path: src/tables is made with its parents, the path returned.
GetOutputPath ==
    /\ pc = "get_output_path"
    /\ dirs' = dirs \cup WithParents(TablesDir)
    /\ path' = OutputPath(unicode_version)
    /\ calls' = Append(calls, "get_output_path")
    /\ pc' = "open"
    /\ UNCHANGED <<unicode_version, temp_directory, code, lines, todo, category,
                   stdout, status, exc, tempdirs, extracted, files, fixed, written>>

\* open("wb"): the file is created, or emptied when it exists.
Open ==
    /\ pc = "open"
    /\ files' = [files EXCEPT ![path] = File(<<>>)]
    /\ pc' = "write"
    /\ UNCHANGED <<locals, stdout, status, exc, tempdirs, extracted, dirs, fixed,
                   calls, written>>

\* fd.write(code), the file is closed and main returns: exit status 0.
Write ==
    /\ pc = "write"
    /\ files' = [files EXCEPT ![path] = File(code)]
    /\ written' = Append(written, code)
    /\ status' = 0
    /\ pc' = "exit"
    /\ UNCHANGED <<locals, stdout, exc, tempdirs, extracted, dirs, fixed, calls>>

\* The program is started again after a run that completed, with the same
\* command line and the same UCD snapshot, on the filesystem that run left
\* behind.
Rerun ==
    /\ pc = "exit"
    /\ status = 0
    /\ exc = NoException
    /\ run < MaxRuns
    /\ run' = run + 1
    /\ pc' = "main"
    /\ unicode_version' = <<>>
    /\ temp_directory' = 0
    /\ code' = <<>>
    /\ lines' = <<>>
    /\ todo' = {}
    /\ category' = <<>>
    /\ path' = <<>>
    /\ status' = 0
    /\ exc' = NoException
    /\ files0' = files
    /\ calls' = <<>>
    /\ UNCHANGED <<argv, generated, stdout, world, written>>

Next ==
    \/ MainUsage
    \/ MainStart
    \/ Fetch
    \/ UcdGenerate
    \/ TransformBegin
    \/ TransformCategory
    \/ TransformReturn
    \/ GetOutputPath
    \/ Open
    \/ Write
    \/ Rerun

Spec == Init /\ [][Next]_vars

\* ---------------------------------------------------------------------------
\* Properties.  What they read of a run: the source the generator printed
\* (generated), the value transform_code returned (code, in the state in
\* which it has just returned), the files, the exit status.
\* ---------------------------------------------------------------------------
\* src/tables/v15_0_0.rs
PathV15 ==
    <<"s","r","c","/","t","a","b","l","e","s","/","v","1","5","_","0","_","0",".","r",
    "s">>
\* src/tables/v14_0_0.rs
PathV14 ==
    <<"s","r","c","/","t","a","b","l","e","s","/","v","1","4","_","0","_","0",".","r",
    "s">>
\* src/tables/v
PathPrefix ==
    <<"s","r","c","/","t","a","b","l","e","s","/","v">>
\* .rs
PathSuffix ==
    <<".","r","s">>
\* &'static str
StrType ==
    <<"&","'","s","t","a","t","i","c"," ","s","t","r">>
\* BY_NAME
ByName ==
    <<"B","Y","_","N","A","M","E">>

Called(f) == \E i \in 1..Len(calls) : calls[i] = f

\* transform_code has just returned and main holds its value in code.
Returned == pc = "get_output_path"

SourceLines == splitlines(generated)
OutputLines == splitlines(code)

\* The lines of ls that hold the category name / the category's pair opening.
LinesHolding(ls, text) == {i \in 1..Len(ls) : Contains(ls[i], text)}

\* The line of the BY_NAME declaration.
DeclLine(ls) == Min(LinesHolding(ls, ByName))

\* The table references of a line, left to right: its words (runs of
\* letters, digits and "_") made of capitals and "_" only.
Capitals == {UpperCase[k] : k \in 1..26} \cup {"_"}
WordChars ==
    Capitals \cup {LowerCase[k] : k \in 1..26}
             \cup {"0", "1", "2", "3", "4", "5", "6", "7", "8", "9"}

WordEnd(line, i) ==
    Min({j \in i..Len(line) : j = Len(line) \/ line[j + 1] \notin WordChars})

RECURSIVE WordsFrom(_, _)
WordsFrom(line, starts) ==
    IF starts = {} THEN <<>>
    ELSE LET i == Min(starts)
         IN  <<SubSeq(line, i, WordEnd(line, i))>> \o WordsFrom(line, starts \ {i})

TableRefs(line) ==
    LET starts == {i \in 1..Len(line) :
                      /\ line[i] \in WordChars
                      /\ i = 1 \/ line[i - 1] \notin WordChars}
    IN  WordsFrom(line, {i \in starts :
                            \A k \in i..WordEnd(line, i) : line[k] \in Capitals})

\* The entries of the by-name index, in order: the table references on the
\* lines between the declaration and the "];" that closes it.
RECURSIVE RefsOfLines(_, _, _)
RefsOfLines(ls, from, to) ==
    IF from > to THEN <<>>
    ELSE TableRefs(ls[from]) \o RefsOfLines(ls, from + 1, to)

IndexEntries(ls) ==
    LET d == DeclLine(ls)
        close == Min({i \in (d + 1)..Len(ls) : ls[i] = CloseLine})
    IN  RefsOfLines(ls, d + 1, close - 1)

\* transform_code with the loop run in a given order.
RECURSIVE LoopInOrder(_, _)
LoopInOrder(ls, order) ==
    IF order = <<>> THEN ls
    ELSE LoopInOrder(RewriteLine(ls, FirstIndex(ls, order[1]), order[1]), Tail(order))

WrittenOrder == [i \in 1..NumCategories |-> CategoryNames[i]]

TransformInOrder(source, order) ==
    join(<<"\n">>, LoopInOrder(splitlines(RewriteDecl(source)), order))


\* C1: for every category, when no line of the source holds the category's
\* name, transform_code ends by raising TransformError whose message names
\* that category, and returns nothing.
C1_MissingCategoryRaisesTransformError ==
    \A c \in CATEGORIES :
        (/\ Called("ucd_generate")
         /\ pc \notin {"transform_code", "for"}
         /\ LinesHolding(SourceLines, c) = {})
        => /\ ~Called("transform_code")
           /\ pc = "exit"
           /\ exc.type = "TransformError"
           /\ Contains(exc.message, c)

\* C2: for every category, when more than one line of the source holds the
\* category's name, transform_code fails with TransformError; it never
\* returns output.
C2_AmbiguousCategoryFails ==
    \A c \in CATEGORIES :
        (/\ Called("ucd_generate")
         /\ pc \notin {"transform_code", "for"}
         /\ Cardinality(LinesHolding(SourceLines, c)) > 1)
        => /\ ~Called("transform_code")
           /\ pc = "exit"
           /\ exc.type = "TransformError"

\* C3: transform_code never reorders entries: the k-th entry of the by-name
\* index of the output refers to the same table as the k-th entry of the
\* input, for every k, in whatever order the loop took the categories.
C3_IndexOrderKept ==
    Returned => IndexEntries(OutputLines) = IndexEntries(SourceLines)

\* C3 witness: transform_code returned on a two-entries-a-line source whose
\* index lists the second category first.
C3_Witness ==
    /\ Returned
    /\ LET src == SourceLines
           es == IndexEntries(src)
       IN  /\ Len(es) >= 2
           /\ es[1] = TableName(CategoryNames[2])
           /\ es[2] = TableName(CategoryNames[1])
           /\ IndexEntries(OutputLines) = es
           /\ \E i \in 1..Len(src) : Len(TableRefs(src[i])) = 2

\* C4: transform_code is deterministic: what it returns is the result of
\* running the loop in the order the set literal is written, whatever order
\* the run took; whether it returns or raises depends on the source alone;
\* and the runs of the program on the same version and source wrote the
\* same bytes.
C4_Deterministic ==
    /\ Returned => code = TransformInOrder(generated, WrittenOrder)
    /\ Returned => \A c \in CATEGORIES : Contains(generated, c)
    /\ exc.type = "TypeError" => \E c \in CATEGORIES : ~Contains(generated, c)
    /\ \A i \in 1..Len(written) : written[i] = written[1]
    /\ (pc = "exit" /\ status = 0)
           => files[path] = File(TransformInOrder(generated, WrittenOrder))

\* C4 witness: the second run has written its file, and the transform
\* changed the source.
C4_Witness ==
    /\ pc = "exit"
    /\ run = 2
    /\ Len(written) = 2
    /\ written[2] # generated
    /\ files[path] = File(written[1])

\* C5: after transform_code, for every category, the line that held the
\* entry ("Name", TABLE) holds the bare TABLE, and no line of the output
\* holds the category's pair opening ("Name", any more.
C5_EveryCategoryUnwrapped ==
    Returned =>
        LET src == SourceLines
            out == OutputLines
        IN  \A c \in CATEGORIES :
                /\ LinesHolding(out, PairOpen(c)) = {}
                /\ \A i \in LinesHolding(src, PairOpen(c)) :
                       /\ Contains(out[i], TableName(c) \o <<",">>)
                       /\ ~Contains(out[i], c)

\* C6: the declaration line of the by-name index declares table references
\* alone (the new declaration, followed by what followed the old one, with
\* no &'static str left), and the substitution changes that line only.
C6_DeclRewrittenOnce ==
    LET src == SourceLines
        out == OutputLines
        d == DeclLine(src)
        rest == SubSeq(src[d], Len(OldDecl) + 1, Len(src[d]))
    IN  /\ (pc = "for" /\ todo = CATEGORIES) =>
               /\ Len(lines) = Len(src)
               /\ \A i \in 1..Len(lines) :
                      lines[i] = IF i = d THEN NewDecl \o rest ELSE src[i]
        /\ Returned =>
               /\ out[d] = NewDecl \o rest
               /\ ~Contains(out[d], StrType)
               /\ LinesHolding(out, NewDecl) = {d}

\* C6 witness: the substitution has just been made and changed the
\* declaration line.
C6_Witness ==
    /\ pc = "for"
    /\ todo = CATEGORIES
    /\ LET src == SourceLines
           d == DeclLine(src)
       IN  lines[d] # src[d] /\ Contains(src[d], StrType)

\* C7: the output file is touched only after fetch, ucd_generate and
\* transform_code returned, in that order; when one of them fails the run
\* ends with status 1 and the files are as they were when it started; a
\* file the run changed for good holds the whole of what transform_code
\* returned.
C7_WriteOnlyAfterAllSteps ==
    /\ \E n \in 0..4 :
           calls = SubSeq(<<"fetch", "ucd_generate", "transform_code",
                            "get_output_path">>, 1, n)
    /\ files # files0 =>
           /\ Len(calls) = 4
           /\ pc \in {"write", "exit"}
           /\ exc = NoException
    /\ (pc = "exit" /\ Len(argv) = 2 /\ Len(calls) < 3) =>
           /\ status = 1
           /\ exc.type \in {"URLError", "CalledProcessError", "TypeError"}
           /\ files = files0
           /\ run = 1 => dirs = {}
    /\ (pc = "exit" /\ status = 0) =>
           /\ Len(calls) = 4
           /\ files[path] = File(code)

\* C7 witness: a run that failed (in fetch or in the generator) while the
\* output file of an earlier run existed, and left it as it was.
C7_Witness ==
    /\ pc = "exit"
    /\ status = 1
    /\ run = 2
    /\ files[OutputPath(unicode_version)].exists
    /\ files = files0

\* C8: get_output_path returns src/tables/v<version, each "." turned into
\* "_">.rs, and src/tables exists when it has returned.
C8_OutputPath ==
    Called("get_output_path") =>
        /\ path = PathPrefix
                    \o [i \in 1..Len(unicode_version) |->
                           IF unicode_version[i] = "." THEN "_" ELSE unicode_version[i]]
                    \o PathSuffix
        /\ unicode_version = V15 => path = PathV15
        /\ unicode_version = V14 => path = PathV14
        /\ TablesDir \in dirs

\* C8 witness: get_output_path has just returned for 15.0.0 in a first run,
\* where src/tables did not exist before.
C8_Witness ==
    /\ pc = "open"
    /\ run = 1
    /\ unicode_version = V15
    /\ path = PathV15

\* C9: with a number of arguments other than one, main prints the usage
\* message and exits with status 1, and nothing else happens: no call, no
\* temporary directory, no directory, no file.
C9_UsageAndNothingElse ==
    Len(argv) # 2 =>
        /\ pc \in {"main", "exit"}
        /\ calls = <<>>
        /\ tempdirs = 0
        /\ extracted = {}
        /\ dirs = {}
        /\ \A p \in OutputPaths : ~files[p].exists
        /\ code = <<>>
        /\ pc = "exit" =>
               /\ status = 1
               /\ exc.type = "SystemExit"
               /\ stdout = <<USAGE>>

\* C9 witness: main has exited on a command line with two arguments.
C9_Witness ==
    /\ pc = "exit"
    /\ Len(argv) = 3
    /\ stdout = <<USAGE>>

\* C10: when transform_code returns, the output has as many lines as the
\* input, and every input line that holds neither the by-name declaration
\* nor one of the 30 category names is the same at the same index.
C10_Frame ==
    Returned =>
        LET src == SourceLines
            out == OutputLines
        IN  /\ Len(out) = Len(src)
            /\ \A i \in 1..Len(src) :
                   (/\ ~Contains(src[i], OldDecl)
                    /\ \A k \in 1..Len(CategoryNames) :
                           ~Contains(src[i], CategoryNames[k]))
                   => out[i] = src[i]

\* C10, amended: when transform_code returns, the output has as many lines
\* as the input, or one fewer when the last line is empty (join writes no
\* terminator after the last line, so an empty last line is not there when
\* the output is read back); every input line that holds neither the
\* by-name declaration nor a category name, and is not that dropped last
\* line, is the same at the same index.
C10_FrameButEmptyLastLine ==
    Returned =>
        LET src == SourceLines
            out == OutputLines
        IN  /\ Len(out) = IF code = <<>> \/ code[Len(code)] = "\n"
                          THEN Len(src) - 1 ELSE Len(src)
            /\ \A i \in 1..Len(out) :
                   (/\ ~Contains(src[i], OldDecl)
                    /\ \A k \in 1..Len(CategoryNames) :
                           ~Contains(src[i], CategoryNames[k]))
                   => out[i] = src[i]

\* C10 witness: transform_code returned on a source with "\r\n" line ends
\* whose last line is empty; the output is one line shorter and a line of
\* ranges, which holds "),", is as it was.
C10_Witness ==
    /\ Returned
    /\ Contains(generated, <<"\r", "\n">>)
    /\ LET src == SourceLines
           out == OutputLines
       IN  /\ src[Len(src)] = <<>>
           /\ Len(out) = Len(src) - 1
           /\ \E i \in 1..Len(out) : src[i] = RangeLine /\ out[i] = RangeLine
====
